---- MODULE Spec2Model ----
(***************************************************************************)
(* Model of aden_tools/tools/pdf_read_tool/pdf_read_tool.py.               *)
(*                                                                         *)
(* Python strings are sequences of one-character strings, so that          *)
(* str.lower, str.isdigit, str.split, str.strip, int() and the f-string    *)
(* formatting of page markers are computed character by character.         *)
(*                                                                         *)
(* A Python list result of parse_page_range is [list |-> <<...>>], a dict  *)
(* result is [error |-> message]; a message is the f-string template with  *)
(* the values substituted into it, [fmt |-> template, args |-> values].    *)
(***************************************************************************)
EXTENDS Integers, Sequences, FiniteSets, TLC

\* ---- bounds of the model ----
MaxLen == 4
MaxTotal == 2
MaxSmall == 2

\* ---- program constants (max(1, min(max_pages, 1000))) ----
MinPages == 1
PagesLimit == 1000

None == <<"None">>

min(a, b) == IF a <= b THEN a ELSE b
max(a, b) == IF a >= b THEN a ELSE b

\* list(range(a, b))
range(a, b) == [i \in 1..(b - a) |-> a + i - 1]

\* ---- str methods ----
Digit == {"0", "1", "2", "3", "4", "5", "6", "7", "8", "9"}

DigitVal(c) ==
  CASE c = "0" -> 0 [] c = "1" -> 1 [] c = "2" -> 2 [] c = "3" -> 3
    [] c = "4" -> 4 [] c = "5" -> 5 [] c = "6" -> 6 [] c = "7" -> 7
    [] c = "8" -> 8 [] c = "9" -> 9

LowerChar(c) ==
  CASE c = "A" -> "a" [] c = "L" -> "l" [] c = "P" -> "p"
    [] c = "D" -> "d" [] c = "F" -> "f" [] OTHER -> c

lower(s) == [i \in 1..Len(s) |-> LowerChar(s[i])]

\* characters str.isdigit accepts although int() rejects them (superscripts)
OtherDigit == {"²"}

isdigit(s) == Len(s) > 0 /\ \A i \in 1..Len(s) : s[i] \in Digit \cup OtherDigit

contains(s, c) == \E i \in 1..Len(s) : s[i] = c

\* s.find(c) as a 1-based position, 0 when c does not occur
find(s, c) ==
  IF contains(s, c)
  THEN CHOOSE i \in 1..Len(s) : s[i] = c /\ \A j \in 1..(i - 1) : s[j] # c
  ELSE 0

\* s.split(sep, 1) for an s that contains sep
split1(s, sep) ==
  LET i == find(s, sep)
  IN  <<SubSeq(s, 1, i - 1), SubSeq(s, i + 1, Len(s))>>

RECURSIVE split(_, _)
split(s, sep) ==
  LET i == find(s, sep)
  IN  IF i = 0 THEN <<s>>
      ELSE <<SubSeq(s, 1, i - 1)>> \o split(SubSeq(s, i + 1, Len(s)), sep)

IsSpace(c) == c \in {" ", "\t", "\n"}

RECURSIVE lstrip(_)
lstrip(s) == IF s # <<>> /\ IsSpace(Head(s)) THEN lstrip(Tail(s)) ELSE s

RECURSIVE rstrip(_)
rstrip(s) ==
  IF s # <<>> /\ IsSpace(s[Len(s)]) THEN rstrip(SubSeq(s, 1, Len(s) - 1)) ELSE s

strip(s) == rstrip(lstrip(s))

\* ---- int(x): surrounding whitespace, an optional sign, then decimal digits,
\* ---- which single underscores may separate ----
IntBody(x) ==
  LET t == strip(x)
  IN  IF t # <<>> /\ Head(t) \in {"+", "-"} THEN Tail(t) ELSE t

\* FALSE when int(x) raises ValueError
int_valid(x) ==
  LET b == IntBody(x)
  IN  /\ Len(b) > 0
      /\ \A i \in 1..Len(b) : b[i] \in Digit \cup {"_"}
      /\ b[1] # "_" /\ b[Len(b)] # "_"
      /\ \A i \in 1..(Len(b) - 1) : ~(b[i] = "_" /\ b[i + 1] = "_")

RECURSIVE digits_value(_)
digits_value(s) ==
  IF s = <<>> THEN 0
  ELSE IF s[Len(s)] = "_" THEN digits_value(SubSeq(s, 1, Len(s) - 1))
  ELSE 10 * digits_value(SubSeq(s, 1, Len(s) - 1)) + DigitVal(s[Len(s)])

int(x) ==
  LET t == strip(x)
  IN  IF t # <<>> /\ Head(t) = "-" THEN 0 - digits_value(IntBody(x))
      ELSE digits_value(IntBody(x))

\* s[:n]
SliceTo(s, n) ==
  IF n >= 0 THEN SubSeq(s, 1, min(n, Len(s)))
  ELSE SubSeq(s, 1, max(Len(s) + n, 0))

\* ---- the error dicts of parse_page_range ----
ErrorDict(fmt, args) == [error |-> [fmt |-> fmt, args |-> args]]

PageOutOfRangeError(p, total_pages_) ==
  ErrorDict("Page {} out of range. PDF has {} pages.", <<p, total_pages_>>)

StartsAtOneError(start) ==
  ErrorDict("Page numbers start at 1, got {}.", <<start>>)

InvalidRangeError(pages_) ==
  ErrorDict("Invalid page range: {}. Start must be <= end.", <<pages_>>)

InvalidFormatError(pages_) ==
  ErrorDict("Invalid page format: '{}'.", <<pages_>>)

\* except ValueError as exc: exc names the literal int() rejected
ValueErrorDict(pages_, literal) ==
  ErrorDict("Invalid page format: '{}'. {}", <<pages_, literal>>)

\* ---- parse_page_range, branch by branch ----
\* faulty variant: "all" ignores max_pages
AllBranch_IgnoresMax(total_pages_, max_pages_) ==
  [list |-> range(0, total_pages_)]

AllBranch(total_pages_, max_pages_) ==
  [list |-> range(0, min(total_pages_, max_pages_))]

\* faulty variant: page 0 passes the lower bound check
DigitBranch_AcceptsZero(pages_, total_pages_) ==
  LET page_num == int(pages_)
  IN  IF ~int_valid(pages_) THEN ValueErrorDict(pages_, pages_)
      ELSE IF page_num < 0 \/ page_num > total_pages_
      THEN PageOutOfRangeError(page_num, total_pages_)
      ELSE [list |-> <<page_num - 1>>]

DigitBranch(pages_, total_pages_) ==
  LET page_num == int(pages_)
  IN  IF ~int_valid(pages_) THEN ValueErrorDict(pages_, pages_)
      ELSE IF page_num < 1 \/ page_num > total_pages_
      THEN PageOutOfRangeError(page_num, total_pages_)
      ELSE [list |-> <<page_num - 1>>]

\* faulty variant: the range is not capped at max_pages entries
DashBranch_Uncapped(pages_, total_pages_, max_pages_) ==
  LET parts == split1(pages_, "-")
      start_str == parts[1]
      end_str == parts[2]
  IN  IF ~int_valid(start_str) THEN ValueErrorDict(pages_, start_str)
      ELSE IF ~int_valid(end_str) THEN ValueErrorDict(pages_, end_str)
      ELSE LET start == int(start_str)
               end == int(end_str)
           IN  IF start > end THEN InvalidRangeError(pages_)
               ELSE IF start < 1 THEN StartsAtOneError(start)
               ELSE IF end > total_pages_
                    THEN PageOutOfRangeError(end, total_pages_)
               ELSE [list |-> range(start - 1, end)]

\* faulty variant: the bounds are checked before start > end
DashBranch_BoundsFirst(pages_, total_pages_, max_pages_) ==
  LET parts == split1(pages_, "-")
      start_str == parts[1]
      end_str == parts[2]
  IN  IF ~int_valid(start_str) THEN ValueErrorDict(pages_, start_str)
      ELSE IF ~int_valid(end_str) THEN ValueErrorDict(pages_, end_str)
      ELSE LET start == int(start_str)
               end == int(end_str)
           IN  IF start < 1 THEN StartsAtOneError(start)
               ELSE IF end > total_pages_
                    THEN PageOutOfRangeError(end, total_pages_)
               ELSE IF start > end THEN InvalidRangeError(pages_)
               ELSE [list |-> range(start - 1, min(end, start - 1 + max_pages_))]

DashBranch(pages_, total_pages_, max_pages_) ==
  LET parts == split1(pages_, "-")
      start_str == parts[1]
      end_str == parts[2]
  IN  IF ~int_valid(start_str) THEN ValueErrorDict(pages_, start_str)
      ELSE IF ~int_valid(end_str) THEN ValueErrorDict(pages_, end_str)
      ELSE LET start == int(start_str)
               end == int(end_str)
           IN  IF start > end THEN InvalidRangeError(pages_)
               ELSE IF start < 1 THEN StartsAtOneError(start)
               ELSE IF end > total_pages_
                    THEN PageOutOfRangeError(end, total_pages_)
               ELSE [list |-> range(start - 1, min(end, start - 1 + max_pages_))]

\* faulty variant: the list is cut to max_pages values before the range check
CommaBranch_TruncatesFirst(pages_, total_pages_, max_pages_) ==
  LET toks == split(pages_, ",")
      lits == [i \in 1..Len(toks) |-> strip(toks[i])]
      Bad == {i \in 1..Len(lits) : ~int_valid(lits[i])}
  IN  IF Bad # {}
      THEN ValueErrorDict(pages_, lits[CHOOSE i \in Bad : \A j \in Bad : i <= j])
      ELSE LET page_nums == SliceTo([i \in 1..Len(lits) |-> int(lits[i])], max_pages_)
               Out == {i \in 1..Len(page_nums) :
                         page_nums[i] < 1 \/ page_nums[i] > total_pages_}
           IN  IF Out # {}
               THEN PageOutOfRangeError(
                      page_nums[CHOOSE i \in Out : \A j \in Out : i <= j],
                      total_pages_)
               ELSE [list |-> [i \in 1..Len(page_nums) |-> page_nums[i] - 1]]

CommaBranch(pages_, total_pages_, max_pages_) ==
  LET toks == split(pages_, ",")
      lits == [i \in 1..Len(toks) |-> strip(toks[i])]
      Bad == {i \in 1..Len(lits) : ~int_valid(lits[i])}
  IN  IF Bad # {}
      THEN ValueErrorDict(pages_, lits[CHOOSE i \in Bad : \A j \in Bad : i <= j])
      ELSE LET page_nums == [i \in 1..Len(lits) |-> int(lits[i])]
               Out == {i \in 1..Len(page_nums) :
                         page_nums[i] < 1 \/ page_nums[i] > total_pages_}
           IN  IF Out # {}
               THEN PageOutOfRangeError(
                      page_nums[CHOOSE i \in Out : \A j \in Out : i <= j],
                      total_pages_)
               ELSE LET kept == SliceTo(page_nums, max_pages_)
                    IN  [list |-> [i \in 1..Len(kept) |-> kept[i] - 1]]

parse_page_range(pages_, total_pages_, max_pages_) ==
  IF pages_ = None \/ lower(pages_) = <<"a", "l", "l">>
  THEN AllBranch(total_pages_, max_pages_)
  ELSE IF isdigit(pages_) THEN DigitBranch(pages_, total_pages_)
  ELSE IF contains(pages_, "-") /\ ~contains(pages_, ",")
       THEN DashBranch(pages_, total_pages_, max_pages_)
  ELSE IF contains(pages_, ",")
       THEN CommaBranch(pages_, total_pages_, max_pages_)
  ELSE InvalidFormatError(pages_)

\* isinstance(page_indices, dict)
IsDict(r) == "error" \in DOMAIN r

\* max(1, min(max_pages, 1000))
ClampMaxPages(m) == max(MinPages, min(m, PagesLimit))

\* ---- str(n), the conversion an f-string applies to an int ----
RECURSIVE str_nat(_)
str_nat(n) ==
  LET d == <<"0", "1", "2", "3", "4", "5", "6", "7", "8", "9">>[(n % 10) + 1]
  IN  IF n < 10 THEN <<d>> ELSE str_nat(n \div 10) \o <<d>>

str_int(n) == IF n < 0 THEN <<"-">> \o str_nat(0 - n) ELSE str_nat(n)

\* sep.join(parts)
RECURSIVE join(_, _)
join(sep, parts) ==
  IF parts = <<>> THEN <<>>
  ELSE IF Len(parts) = 1 THEN parts[1]
  ELSE parts[1] \o sep \o join(sep, Tail(parts))

\* ---- pathlib ----
Cwd == <<"/">>

\* Path(file_path).resolve() for a relative file_path
resolve(file_path_) == Cwd \o file_path_

\* path.name: what follows the last "/"
RECURSIVE PathName(_)
PathName(path) ==
  IF contains(path, "/") THEN PathName(split1(path, "/")[2]) ELSE path

\* s.rfind(c) as a 1-based position, 0 when c does not occur
rfind(s, c) ==
  IF contains(s, c)
  THEN CHOOSE i \in 1..Len(s) : s[i] = c /\ \A j \in (i + 1)..Len(s) : s[j] # c
  ELSE 0

\* path.suffix: from the last "." of the name, unless it leads or ends the name
suffix(path) ==
  LET name == PathName(path)
      i == rfind(name, ".")
  IN  IF 1 < i /\ i < Len(name) THEN SubSeq(name, i, Len(name)) ELSE <<>>

\* f"--- Page {idx + 1} ---\n{text}"
PagePart(idx, text) ==
  <<"-", "-", "-", " ", "P", "a", "g", "e", " ">> \o str_int(idx + 1)
    \o <<" ", "-", "-", "-", "\n">> \o text

\* extract_text() or ""
OrEmpty(text) == IF text = None \/ text = <<>> THEN <<>> ELSE text

\* ---- inputs of the parser ----
Alphabet == {"0", "1", "2", "-", ",", " ", "+", "_", "²"}

StringsUpTo(n) == UNION {[1..k -> Alphabet] : k \in 0..n}

AllSpellings == {<<a, b, c>> : a \in {"a", "A"}, b \in {"l", "L"}, c \in {"l", "L"}}

NearAll == {<<"a">>, <<"a", "l">>, <<"a", "l", "l", " ">>, <<" ", "a", "l", "l">>,
            <<"a", "l", "l", "l">>}

Selections == {None} \cup AllSpellings \cup NearAll \cup StringsUpTo(MaxLen)

MaxPagesValues == (MinPages..MaxSmall) \cup {PagesLimit}

\* ---- inputs and environment of pdf_read ----
FilePaths == {<<"a", ".", "p", "d", "f">>, <<"a", ".", "P", "D", "F">>,
              <<"a", ".", "t", "x", "t">>, <<".", "p", "d", "f">>}

\* what the file system holds at the path: nothing, a directory, a regular
\* file, or an entry whose stat() raises PermissionError
FsStates == {"missing", "dir", "file", "denied"}

PdfSelections == {None, <<"A", "L", "L">>, <<"2">>, <<"1", "-", "2">>,
                  <<"2", ",", "1">>, <<"2", "-", "1">>, <<"1", ",", "+">>}

MaxPagesArgs == ((0 - 1)..MaxSmall) \cup {PagesLimit + 1}

\* the document behind the path, as the decoder reports it
Documents == [encrypted : BOOLEAN, npages : 0..MaxTotal]

\* what extract_text() may return
PageTexts == {None, <<>>, <<"h", "i">>,
              <<"-", "-", "-", " ", "P", "a", "g", "e", " ", "7", " ", "-", "-", "-">>}

\* exceptions the decoder may raise
Raises == {"PermissionError", "PdfReadError", "ValueError"}

\* reader.metadata: None, an empty dict, or a dict with some of the keys
NoKeys == [k \in {} |-> <<>>]

MetadataChoices ==
  { [isNone |-> TRUE, info |-> NoKeys],
    [isNone |-> FALSE, info |-> NoKeys],
    [isNone |-> FALSE, info |-> [Title |-> <<"T">>, CreationDate |-> <<"D">>]] }

NoResult == [pending |-> TRUE]
NoExc == [stage |-> "none", type |-> "none"]

VARIABLES
  pc,               \* position of the call
  file_path, pages, max_pages, include_metadata,   \* arguments of pdf_read
  fs, doc,          \* the file system entry and the document
  reader,           \* the PdfReader handle: "none", "open", "collected"
  total_pages, page_indices, content_parts, result,   \* locals of pdf_read
  returned,         \* the value the call returned
  trace,            \* the stages executed, in order
  texts,            \* the texts the decoder returned, in order
  exc               \* the exception raised inside the try block, if any

vars == <<pc, file_path, pages, max_pages, include_metadata, fs, doc, reader,
          total_pages, page_indices, content_parts, result, returned, trace,
          texts, exc>>

locals == <<total_pages, page_indices, content_parts, result>>
args == <<file_path, pages, include_metadata>>
env == <<fs, doc>>

\* ---- specification of parse_page_range alone ----
InitParse ==
  /\ pc = "parse"
  /\ pages \in Selections
  /\ total_pages \in 0..MaxTotal
  /\ max_pages \in MaxPagesValues
  /\ page_indices = [list |-> <<>>]
  /\ file_path = <<>> /\ include_metadata = FALSE
  /\ fs = "missing" /\ doc = [encrypted |-> FALSE, npages |-> 0]
  /\ reader = "none" /\ content_parts = <<>> /\ result = NoResult
  /\ returned = NoResult /\ trace = <<>> /\ texts = <<>> /\ exc = NoExc

Parse ==
  /\ pc = "parse"
  /\ page_indices' = parse_page_range(pages, total_pages, max_pages)
  /\ pc' = "parsed"
  /\ UNCHANGED <<file_path, pages, max_pages, include_metadata, fs, doc, reader,
                 total_pages, content_parts, result, returned, trace, texts, exc>>

NextParse == Parse

SpecParse == InitParse /\ [][NextParse]_vars

\* ---- pdf_read ----
Init ==
  /\ pc = "start"
  /\ file_path \in FilePaths
  /\ pages \in PdfSelections
  /\ max_pages \in MaxPagesArgs
  /\ include_metadata \in BOOLEAN
  /\ fs \in FsStates
  /\ doc \in Documents
  /\ reader = "none"
  /\ total_pages = 0
  /\ page_indices = [list |-> <<>>]
  /\ content_parts = <<>>
  /\ result = NoResult
  /\ returned = NoResult
  /\ trace = <<>>
  /\ texts = <<>>
  /\ exc = NoExc

\* return r
Return(r) == returned' = r /\ pc' = "returned"

\* faulty variant: the last clause catches the decoder's own error class only
Except_PdfErrorsOnly(e, stage) ==
  /\ exc' = [stage |-> stage, type |-> e]
  /\ IF e = "PermissionError"
     THEN Return(ErrorDict("Permission denied: {}", <<file_path>>))
     ELSE IF e = "PdfReadError"
     THEN Return(ErrorDict("Failed to read PDF: {}", <<e>>))
     ELSE returned' = returned /\ pc' = "raised"

\* the except clauses of pdf_read, for an exception of type e raised at stage
Except(e, stage) ==
  /\ exc' = [stage |-> stage, type |-> e]
  /\ IF e = "PermissionError"
     THEN Return(ErrorDict("Permission denied: {}", <<file_path>>))
     ELSE IF e \in {"PdfReadError", "ValueError", "IndexError"}
     THEN Return(ErrorDict("Failed to read PDF: {}", <<e>>))
     ELSE returned' = returned /\ pc' = "raised"

\* faulty variant: the suffix is checked before the path is known to exist
PathChecks_SuffixFirst ==
  /\ pc = "start"
  /\ trace' = Append(trace, "path")
  /\ LET path == resolve(file_path)
     IN  IF fs = "denied" THEN Except("PermissionError", "path")
         ELSE /\ exc' = exc
              /\ IF lower(suffix(path)) # <<".", "p", "d", "f">>
                 THEN Return(ErrorDict("Not a PDF file: {}", <<file_path>>))
                 ELSE IF fs = "missing"
                 THEN Return(ErrorDict("PDF file not found: {}", <<file_path>>))
                 ELSE IF fs # "file"
                 THEN Return(ErrorDict("Not a file: {}", <<file_path>>))
                 ELSE returned' = returned /\ pc' = "open"
  /\ UNCHANGED <<args, max_pages, env, reader, locals, texts>>

\* resolve the path, then exists / is_file / suffix
PathChecks ==
  /\ pc = "start"
  /\ trace' = Append(trace, "path")
  /\ LET path == resolve(file_path)
     IN  IF fs = "denied" THEN Except("PermissionError", "path")
         ELSE /\ exc' = exc
              /\ IF fs = "missing"
                 THEN Return(ErrorDict("PDF file not found: {}", <<file_path>>))
                 ELSE IF fs # "file"
                 THEN Return(ErrorDict("Not a file: {}", <<file_path>>))
                 ELSE IF lower(suffix(path)) # <<".", "p", "d", "f">>
                 THEN Return(ErrorDict("Not a PDF file: {}", <<file_path>>))
                 ELSE returned' = returned /\ pc' = "open"
  /\ UNCHANGED <<args, max_pages, env, reader, locals, texts>>

\* clamp max_pages, then reader = PdfReader(path)
OpenDecoder ==
  /\ pc = "open"
  /\ trace' = Append(trace, "open")
  /\ max_pages' = ClampMaxPages(max_pages)
  /\ \/ /\ reader' = "open"
        /\ pc' = "encrypted"
        /\ UNCHANGED <<returned, exc>>
     \/ /\ \E e \in Raises : Except(e, "open")
        /\ reader' = reader
  /\ UNCHANGED <<args, env, locals, texts>>

\* if reader.is_encrypted: return the Encrypted error
CheckEncrypted ==
  /\ pc = "encrypted"
  /\ trace' = Append(trace, "is_encrypted")
  /\ IF doc.encrypted
     THEN Return(ErrorDict("Cannot read encrypted PDF.", <<>>))
     ELSE returned' = returned /\ pc' = "count"
  /\ UNCHANGED <<args, max_pages, env, reader, locals, texts, exc>>

\* total_pages = len(reader.pages)
CountPages ==
  /\ pc = "count"
  /\ trace' = Append(trace, "count")
  /\ \/ /\ total_pages' = doc.npages
        /\ pc' = "select"
        /\ UNCHANGED <<returned, exc>>
     \/ /\ \E e \in Raises : Except(e, "count")
        /\ total_pages' = total_pages
  /\ UNCHANGED <<args, max_pages, env, reader, page_indices, content_parts,
                 result, texts>>

\* page_indices = parse_page_range(...); a dict is returned as it is
SelectPages ==
  /\ pc = "select"
  /\ trace' = Append(trace, "parse")
  /\ page_indices' = parse_page_range(pages, total_pages, max_pages)
  /\ IF IsDict(page_indices')
     THEN Return(page_indices')
     ELSE returned' = returned /\ pc' = "extract"
  /\ UNCHANGED <<args, max_pages, env, reader, total_pages, content_parts,
                 result, texts, exc>>

\* reader.pages[idx]: a negative idx counts from the end
PageExists(idx) == 0 - doc.npages <= idx /\ idx < doc.npages

\* faulty variant: a page whose extraction fails is kept with an empty text
ExtractPage_SkipsFailedPage ==
  /\ pc = "extract"
  /\ Len(content_parts) < Len(page_indices.list)
  /\ trace' = Append(trace, "extract")
  /\ LET idx == page_indices.list[Len(content_parts) + 1]
     IN  \/ \E text \in PageTexts :
              /\ content_parts' =
                   Append(content_parts, PagePart(idx, OrEmpty(text)))
              /\ texts' = Append(texts, text)
              /\ UNCHANGED <<pc, returned, exc>>
         \/ /\ content_parts' = Append(content_parts, PagePart(idx, <<>>))
            /\ UNCHANGED <<pc, returned, exc, texts>>
  /\ UNCHANGED <<args, max_pages, env, reader, total_pages, page_indices, result>>

\* one iteration of the for loop over page_indices
ExtractPage ==
  /\ pc = "extract"
  /\ Len(content_parts) < Len(page_indices.list)
  /\ trace' = Append(trace, "extract")
  /\ LET idx == page_indices.list[Len(content_parts) + 1]
     IN  IF ~PageExists(idx)
         THEN /\ Except("IndexError", "extract")
              /\ UNCHANGED <<content_parts, texts>>
         ELSE \/ \E text \in PageTexts :
                   /\ content_parts' =
                        Append(content_parts, PagePart(idx, OrEmpty(text)))
                   /\ texts' = Append(texts, text)
                   /\ UNCHANGED <<pc, returned, exc>>
              \/ /\ \E e \in Raises : Except(e, "extract")
                 /\ UNCHANGED <<content_parts, texts>>
  /\ UNCHANGED <<args, max_pages, env, reader, total_pages, page_indices, result>>

\* faulty variant: pages_extracted reports the document's page count
Format_CountsDocumentPages ==
  /\ pc = "extract"
  /\ Len(content_parts) = Len(page_indices.list)
  /\ trace' = Append(trace, "format")
  /\ LET path == resolve(file_path)
         content == join(<<"\n", "\n">>, content_parts)
     IN  result' = [path |-> path,
                    name |-> PathName(path),
                    total_pages |-> total_pages,
                    pages_extracted |-> total_pages,
                    content |-> content,
                    char_count |-> Len(content)]
  /\ pc' = "metadata"
  /\ UNCHANGED <<args, max_pages, env, reader, total_pages, page_indices,
                 content_parts, returned, texts, exc>>

\* content = "\n\n".join(content_parts) and the result dict
Format ==
  /\ pc = "extract"
  /\ Len(content_parts) = Len(page_indices.list)
  /\ trace' = Append(trace, "format")
  /\ LET path == resolve(file_path)
         content == join(<<"\n", "\n">>, content_parts)
     IN  result' = [path |-> path,
                    name |-> PathName(path),
                    total_pages |-> total_pages,
                    pages_extracted |-> Len(page_indices.list),
                    content |-> content,
                    char_count |-> Len(content)]
  /\ pc' = "metadata"
  /\ UNCHANGED <<args, max_pages, env, reader, total_pages, page_indices,
                 content_parts, returned, texts, exc>>

\* meta.get(key)
MetaGet(info, key) == IF key \in DOMAIN info THEN info[key] ELSE None

\* str(v) if v else None, for a date value
DateStr(v) == IF v = None \/ v = <<>> THEN None ELSE v

MetadataDict(info) ==
  [title |-> MetaGet(info, "Title"),
   author |-> MetaGet(info, "Author"),
   subject |-> MetaGet(info, "Subject"),
   creator |-> MetaGet(info, "Creator"),
   producer |-> MetaGet(info, "Producer"),
   created |-> DateStr(MetaGet(info, "CreationDate")),
   modified |-> DateStr(MetaGet(info, "ModDate"))]

\* the optional metadata field, then return result
ReadMetadata ==
  /\ pc = "metadata"
  /\ IF include_metadata
     THEN /\ trace' = Append(trace, "metadata")
          /\ \/ \E m \in MetadataChoices :
                  /\ result' = IF ~m.isNone /\ DOMAIN m.info # {}
                               THEN result @@ [metadata |-> MetadataDict(m.info)]
                               ELSE result
                  /\ Return(result')
                  /\ exc' = exc
             \/ /\ \E e \in Raises : Except(e, "metadata")
                /\ result' = result
     ELSE /\ Return(result)
          /\ UNCHANGED <<trace, result, exc>>
  /\ UNCHANGED <<args, max_pages, env, reader, total_pages, page_indices,
                 content_parts, texts>>

\* pdf_read never closes reader: once the call has returned, the reader is
\* reclaimed whenever the garbage collector gets to it
ReaderCollected ==
  /\ pc = "returned"
  /\ reader = "open"
  /\ reader' = "collected"
  /\ UNCHANGED <<pc, args, max_pages, env, locals, returned, trace, texts, exc>>

Next ==
  \/ PathChecks
  \/ OpenDecoder
  \/ CheckEncrypted
  \/ CountPages
  \/ SelectPages
  \/ ExtractPage
  \/ Format
  \/ ReadMetadata
  \/ ReaderCollected

Spec == Init /\ [][Next]_vars

\* ---- the error taxonomy: which kind each message reports ----
ErrorKind(r) ==
  LET f == r.error.fmt
  IN  CASE f = "Page {} out of range. PDF has {} pages." -> "PageOutOfRange"
        [] f = "Page numbers start at 1, got {}." -> "PageOutOfRange"
        [] f = "Invalid page range: {}. Start must be <= end." -> "InvalidRange"
        [] f = "Invalid page format: '{}'." -> "InvalidFormat"
        [] f = "Invalid page format: '{}'. {}" -> "InvalidFormat"
        [] f = "PDF file not found: {}" -> "NotFound"
        [] f = "Not a file: {}" -> "NotAFile"
        [] f = "Not a PDF file: {}" -> "NotAPdf"
        [] f = "Cannot read encrypted PDF." -> "Encrypted"
        [] f = "Permission denied: {}" -> "PermissionDenied"
        [] f = "Failed to read PDF: {}" -> "ExtractionFailed"

IsError(r, kind) == IsDict(r) /\ ErrorKind(r) = kind

Count(s, c) == Cardinality({i \in 1..Len(s) : s[i] = c})

\* the ascending list first, first + 1, ..., last
IsConsecutive(l, first, last) ==
  /\ Len(l) = last - first + 1
  /\ \A i \in 1..Len(l) : l[i] = first + i - 1

\* the decimal literal of an integer n
DecimalLiteral(n) == str_int(n)

Parsed == pc = "parsed"

\* C3: whenever parse_page_range returns a list (max_pages in [1, 1000]), every
\* element idx satisfies 0 <= idx < total_pages and the list has at most
\* max_pages elements.
C3_IndicesInBounds ==
  (Parsed /\ ~IsDict(page_indices)) =>
    /\ \A i \in 1..Len(page_indices.list) :
         0 <= page_indices.list[i] /\ page_indices.list[i] < total_pages
    /\ Len(page_indices.list) <= max_pages

C3_Witness ==
  /\ Parsed
  /\ pages = <<"1", "-", "2">>
  /\ total_pages = 2
  /\ max_pages = PagesLimit
  /\ page_indices = [list |-> <<0, 1>>]

\* C4: for selection null or any upper/lower-case spelling of "all" the result
\* is exactly the ascending list 0 .. min(total_pages, max_pages) - 1 (empty when
\* total_pages = 0), never an error.
C4_AllSelectsLeadingPages ==
  (Parsed /\ (pages = None \/ pages \in AllSpellings)) =>
    /\ ~IsDict(page_indices)
    /\ IsConsecutive(page_indices.list, 0, min(total_pages, max_pages) - 1)

C4_Witness ==
  /\ Parsed
  /\ pages = <<"A", "l", "L">>
  /\ total_pages = 2
  /\ max_pages = 1
  /\ page_indices = [list |-> <<0>>]

\* C5 as stated: for the decimal literal of any integer n the result is [n-1]
\* when 1 <= n <= total_pages (whatever max_pages is), and otherwise a
\* PageOutOfRange error citing n and total_pages.
C5_Expected(n) ==
  IF 1 <= n /\ n <= total_pages
  THEN page_indices = [list |-> <<n - 1>>]
  ELSE /\ IsError(page_indices, "PageOutOfRange")
       /\ page_indices.error.args = <<n, total_pages>>

C5_AnyIntegerLiteral ==
  (Parsed /\ pages # None /\ int_valid(pages)
     /\ DecimalLiteral(int(pages)) = pages) => C5_Expected(int(pages))

\* C5 amended: the same for the decimal literal of a non-negative integer n.
C5_NonNegativeLiteral ==
  (Parsed /\ pages # None /\ int_valid(pages) /\ int(pages) >= 0
     /\ DecimalLiteral(int(pages)) = pages) => C5_Expected(int(pages))

C5_Witness ==
  /\ Parsed
  /\ pages = <<"1", "2">>
  /\ total_pages = 2
  /\ max_pages = 1
  /\ IsError(page_indices, "PageOutOfRange")
  /\ page_indices.error.args = <<12, 2>>

\* C6: for "start-end" with exactly one '-' and no ',': InvalidFormat if a side
\* is not an integer; else InvalidRange if start > end; else PageOutOfRange if
\* start < 1 or end > total_pages; else the consecutive indices from start-1 to
\* min(end-1, start-1+max_pages-1).
C6_DashRange ==
  (Parsed /\ pages # None /\ Count(pages, "-") = 1 /\ ~contains(pages, ",")) =>
    LET start_str == split1(pages, "-")[1]
        end_str == split1(pages, "-")[2]
        start == int(start_str)
        end == int(end_str)
    IN  IF ~int_valid(start_str) \/ ~int_valid(end_str)
        THEN IsError(page_indices, "InvalidFormat")
        ELSE IF start > end THEN IsError(page_indices, "InvalidRange")
        ELSE IF start < 1 \/ end > total_pages
             THEN IsError(page_indices, "PageOutOfRange")
        ELSE /\ ~IsDict(page_indices)
             /\ IsConsecutive(page_indices.list, start - 1,
                              min(end - 1, start - 1 + max_pages - 1))

C6_Witness ==
  /\ Parsed
  /\ pages = <<"1", "-", "2">>
  /\ total_pages = 2
  /\ max_pages = 1
  /\ page_indices = [list |-> <<0>>]

\* C7: for a selection with at least one ',': InvalidFormat if any trimmed token
\* is not an integer; else PageOutOfRange if any value, at any position, is
\* outside [1, total_pages]; else the first max_pages values, each minus one, in
\* input order with duplicates kept.
C7_CommaList ==
  (Parsed /\ pages # None /\ contains(pages, ",")) =>
    LET toks == split(pages, ",")
        vals == [i \in 1..Len(toks) |-> int(strip(toks[i]))]
    IN  IF \E i \in 1..Len(toks) : ~int_valid(strip(toks[i]))
        THEN IsError(page_indices, "InvalidFormat")
        ELSE IF \E i \in 1..Len(vals) : vals[i] < 1 \/ vals[i] > total_pages
             THEN IsError(page_indices, "PageOutOfRange")
        ELSE /\ ~IsDict(page_indices)
             /\ Len(page_indices.list) = min(Len(vals), max_pages)
             /\ \A i \in 1..Len(page_indices.list) :
                  page_indices.list[i] = vals[i] - 1

C7_Witness ==
  /\ Parsed
  /\ pages = <<"2", ",", "1">>
  /\ total_pages = 2
  /\ max_pages = 1
  /\ page_indices = [list |-> <<1>>]

\* ---- pdf_read: shapes of the returned record ----
ExtractionFields ==
  {"path", "name", "total_pages", "pages_extracted", "content", "char_count"}

IsErrorResult(r) == "error" \in DOMAIN r /\ DOMAIN r \cap ExtractionFields = {}

IsExtractionResult(r) == ExtractionFields \subseteq DOMAIN r /\ "error" \notin DOMAIN r

Returned == pc = "returned"

Last(s) == s[Len(s)]

\* the parsed page list, empty while page_indices holds an error dict
PageList == IF IsDict(page_indices) THEN <<>> ELSE page_indices.list

\* C1: whatever the inputs and whatever the decoder does (raising at open, at
\* the page count, at a page's text or at the metadata), the call never raises,
\* can always take its next step until it returns, takes a bounded number of
\* steps, and returns exactly one of an ErrorResult and an ExtractionResult.
C1_AlwaysReturnsARecord ==
  /\ pc # "raised"
  /\ ~Returned => ENABLED Next
  /\ Len(trace) <= 7 + Len(PageList)
  /\ Returned =>
       /\ IsErrorResult(returned) \/ IsExtractionResult(returned)
       /\ ~(IsErrorResult(returned) /\ IsExtractionResult(returned))

C1_Witness ==
  /\ Returned
  /\ exc = [stage |-> "extract", type |-> "ValueError"]
  /\ IsError(returned, "ExtractionFailed")
  /\ DOMAIN returned = {"error"}

\* C2: the stages run in the order path checks -> open -> encryption check ->
\* (page count) -> parse -> extraction -> format (-> metadata), none skipped;
\* the earliest failing stage decides the result and is the last one executed.
\* The decoder is never opened for a missing path, a non-file or a name not
\* ending in .pdf, and an encrypted document yields Encrypted with no parse and
\* no page text requested, whatever the pages string.
StageRank(st) ==
  CASE st = "path" -> 1 [] st = "open" -> 2 [] st = "is_encrypted" -> 3
    [] st = "count" -> 4 [] st = "parse" -> 5 [] st = "extract" -> 6
    [] st = "format" -> 7 [] st = "metadata" -> 8

EndsInPdf(p) ==
  Len(p) >= 4 /\ lower(SubSeq(p, Len(p) - 3, Len(p))) = <<".", "p", "d", "f">>

C2_FirstFailureWins ==
  /\ trace # <<>> => trace[1] = "path"
  /\ \A i \in 1..(Len(trace) - 1) :
       \/ StageRank(trace[i + 1]) = StageRank(trace[i]) + 1
       \/ trace[i] = "extract" /\ trace[i + 1] = "extract"
       \/ trace[i] = "parse" /\ trace[i + 1] = "format"
            /\ PageList = <<>>
  /\ "open" \in {trace[i] : i \in 1..Len(trace)} =>
       fs = "file" /\ EndsInPdf(file_path)
  /\ doc.encrypted =>
       {"parse", "extract"} \cap {trace[i] : i \in 1..Len(trace)} = {}
  /\ Returned =>
       /\ fs = "missing" => IsError(returned, "NotFound") /\ trace = <<"path">>
       /\ fs = "dir" => IsError(returned, "NotAFile") /\ trace = <<"path">>
       /\ (fs = "file" /\ ~EndsInPdf(file_path)) =>
            IsError(returned, "NotAPdf") /\ trace = <<"path">>
       /\ (reader # "none" /\ doc.encrypted) =>
            /\ IsError(returned, "Encrypted")
            /\ trace = <<"path", "open", "is_encrypted">>
       /\ (Last(trace) = "parse") =>
            /\ IsDict(parse_page_range(pages, total_pages, max_pages))
            /\ returned = parse_page_range(pages, total_pages, max_pages)
       /\ ("parse" \in {trace[i] : i \in 1..Len(trace)}
             /\ IsDict(parse_page_range(pages, total_pages, max_pages))) =>
            Last(trace) = "parse"
       /\ exc # NoExc => exc.stage = Last(trace) /\ IsErrorResult(returned)

C2_Witness ==
  /\ Returned
  /\ doc.encrypted
  /\ pages = <<"2", "-", "1">>
  /\ IsError(returned, "Encrypted")
  /\ trace = <<"path", "open", "is_encrypted">>

\* ---- page markers found in a content string ----
IsMarkerLine(l) ==
  /\ Len(l) >= 14
  /\ SubSeq(l, 1, 9) = <<"-", "-", "-", " ", "P", "a", "g", "e", " ">>
  /\ SubSeq(l, Len(l) - 3, Len(l)) = <<" ", "-", "-", "-">>
  /\ isdigit(SubSeq(l, 10, Len(l) - 4))

MarkerLines(s) ==
  LET lines == split(s, "\n")
  IN  Cardinality({i \in 1..Len(lines) : IsMarkerLine(lines[i])})

RECURSIVE SumMarkerLines(_)
SumMarkerLines(ts) ==
  IF ts = <<>> THEN 0
  ELSE MarkerLines(OrEmpty(Head(ts))) + SumMarkerLines(Tail(ts))

\* C8 as stated: on success, whatever the page texts, pages_extracted is the
\* number of page markers found in content and char_count is its length.
C8_MarkersCountPages ==
  (Returned /\ IsExtractionResult(returned)) =>
    /\ returned.pages_extracted = MarkerLines(returned.content)
    /\ returned.char_count = Len(returned.content)

\* C8 amended: on success char_count is the length of content, and
\* pages_extracted is the number of markers pdf_read itself wrote, one per
\* selected page: the marker lines found in content are these plus the marker
\* lines inside the page texts, so the two counts agree exactly when no page
\* text contains a marker line.
C8_MarkersWrittenCountPages ==
  (Returned /\ IsExtractionResult(returned)) =>
    /\ returned.char_count = Len(returned.content)
    /\ returned.pages_extracted = Len(PageList)
    /\ MarkerLines(returned.content) =
         returned.pages_extracted + SumMarkerLines(texts)

C8_Witness ==
  /\ Returned
  /\ IsExtractionResult(returned)
  /\ returned.pages_extracted = 2
  /\ SumMarkerLines(texts) = 1
  /\ MarkerLines(returned.content) = 3

\* C9: no call returns while the handle it opened is still open.
C9_HandleReleasedOnReturn == Returned => reader # "open"

\* C10: extraction is all-or-nothing. A failure while extracting any selected
\* page gives an ErrorResult without content, pages_extracted or char_count; a
\* result with content exists only when a text was obtained for every index of
\* the page list, and content is then one marker-prefixed part per index, in
\* list order, joined by blank lines.
MarkerLine(k) ==
  <<"-", "-", "-", " ", "P", "a", "g", "e", " ">> \o str_int(k)
    \o <<" ", "-", "-", "-">>

RECURSIVE ExpectedContent(_, _)
ExpectedContent(idxs, ts) ==
  IF idxs = <<>> THEN <<>>
  ELSE MarkerLine(Head(idxs) + 1) \o <<"\n">> \o OrEmpty(Head(ts))
         \o (IF Len(idxs) > 1
             THEN <<"\n", "\n">> \o ExpectedContent(Tail(idxs), Tail(ts))
             ELSE <<>>)

C10_AllOrNothing ==
  Returned =>
    /\ exc.stage = "extract" =>
         /\ IsErrorResult(returned)
         /\ DOMAIN returned \cap {"content", "pages_extracted", "char_count"} = {}
    /\ "content" \in DOMAIN returned =>
         /\ exc = NoExc
         /\ Len(texts) = Len(PageList)
         /\ returned.pages_extracted = Len(PageList)
         /\ returned.content = ExpectedContent(PageList, texts)

C10_Witness ==
  /\ Returned
  /\ exc.stage = "extract"
  /\ Len(PageList) = 2
  /\ Len(texts) = 1
  /\ IsErrorResult(returned)

====
